---- MODULE Spec2Model ----
(***************************************************************************)
(* A model of oslo_context/context.py: the RequestContext class, its       *)
(* alternate constructors and export methods, and the thread-local store   *)
(* holding the current context of each thread.                             *)
(*                                                                         *)
(* Python values are represented as follows.  None is the empty tuple, a   *)
(* string s is <<s>>, a list l is <<l>>, so that None, the empty string    *)
(* and the empty list are three different values; booleans are TLA+        *)
(* booleans.  A dict (and a **kwargs keyword set) is a function from key   *)
(* strings to values, whose DOMAIN is the set of keys present.             *)
(***************************************************************************)
EXTENDS Integers, Sequences, FiniteSets, TLC

VARIABLES
    _request_store,  \* thread -> None or <<id>>: the 'context' attribute of the thread-local
    heap,            \* the RequestContext instances constructed so far; an instance's id is its index
    created,         \* history: for each instance, the call that constructed it
    ret,             \* the last call and its return value
    args,            \* the inputs of the call under study (single-call specifications)
    pc               \* position of the single-call specifications

vars == <<_request_store, heap, created, ret, args, pc>>

-----------------------------------------------------------------------------
(* Bounds *)

NumThreads == 2
MaxCtx == 2
MaxEnvKeys == 2
MaxRolesLen == 3
MaxBoolLen == 4
MaxKw == 2

Threads == 1..NumThreads

-----------------------------------------------------------------------------
(* Python values and the library functions the module uses *)

None == <<>>
Some(x) == <<x>>

\* truth value of None, a string or a list (the operand of 'or' / 'not')
Falsy(v) == v = None \/ Len(v[1]) = 0

EmptyDict == <<>>

\* dict.get(key, default)
Get(d, k, default) == IF k \in DOMAIN d THEN d[k] ELSE default

\* dict.update(other): the keys of other replace those of d
Update(d, other) ==
    [k \in DOMAIN d \cup DOMAIN other |-> IF k \in DOMAIN other THEN other[k] ELSE d[k]]

CharAt(s, i) == SubSeq(s, i, i)

Whitespace == {" ", "\t"}

RECURSIVE lstrip(_)
lstrip(s) ==
    IF Len(s) > 0 /\ CharAt(s, 1) \in Whitespace
    THEN lstrip(SubSeq(s, 2, Len(s)))
    ELSE s

RECURSIVE rstrip(_)
rstrip(s) ==
    IF Len(s) > 0 /\ CharAt(s, Len(s)) \in Whitespace
    THEN rstrip(SubSeq(s, 1, Len(s) - 1))
    ELSE s

\* str.strip()
strip(s) == rstrip(lstrip(s))

\* str.split(sep) for a one-character separator
RECURSIVE split(_, _)
split(s, sep) ==
    IF \A i \in 1..Len(s) : CharAt(s, i) # sep
    THEN <<s>>
    ELSE LET i == CHOOSE j \in 1..Len(s) :
                    /\ CharAt(s, j) = sep
                    /\ \A h \in 1..(j - 1) : CharAt(s, h) # sep
         IN  <<SubSeq(s, 1, i - 1)>> \o split(SubSeq(s, i + 1, Len(s)), sep)

UpperCase == "ABCDEFGHIJKLMNOPQRSTUVWXYZ"
LowerCase == "abcdefghijklmnopqrstuvwxyz"

LowerChar(c) ==
    IF \E i \in 1..26 : CharAt(UpperCase, i) = c
    THEN CharAt(LowerCase, CHOOSE i \in 1..26 : CharAt(UpperCase, i) = c)
    ELSE c

\* str.lower()
RECURSIVE lower(_)
lower(s) ==
    IF Len(s) = 0 THEN ""
    ELSE LowerChar(CharAt(s, 1)) \o lower(SubSeq(s, 2, Len(s)))

\* uuid.uuid4() rendered as text: any of the identifiers, chosen by the entropy source
UUIDs == {"9f1c", "4e7a"}

-----------------------------------------------------------------------------
(* context.py *)

_ENVIRON_HEADERS ==
    [auth_token          |-> <<"HTTP_X_AUTH_TOKEN", "HTTP_X_STORAGE_TOKEN">>,
     user                |-> <<"HTTP_X_USER_ID", "HTTP_X_USER">>,
     tenant              |-> <<"HTTP_X_PROJECT_ID", "HTTP_X_TENANT_ID", "HTTP_X_TENANT">>,
     user_domain         |-> <<"HTTP_X_USER_DOMAIN_ID">>,
     project_domain      |-> <<"HTTP_X_PROJECT_DOMAIN_ID">>,
     user_name           |-> <<"HTTP_X_USER_NAME">>,
     project_name        |-> <<"HTTP_X_PROJECT_NAME", "HTTP_X_TENANT_NAME">>,
     user_domain_name    |-> <<"HTTP_X_USER_DOMAIN_NAME">>,
     project_domain_name |-> <<"HTTP_X_PROJECT_DOMAIN_NAME">>,
     request_id          |-> <<"openstack.request_id">>]

generate_request_id(uuid) == "req-" \o uuid

\* the defaults of the parameters of RequestContext.__init__
InitDefaults ==
    [auth_token |-> None, user |-> None, tenant |-> None, domain |-> None,
     user_domain |-> None, project_domain |-> None, is_admin |-> FALSE,
     read_only |-> FALSE, show_deleted |-> FALSE, request_id |-> None,
     resource_uuid |-> None, overwrite |-> TRUE, roles |-> None,
     user_name |-> None, project_name |-> None, domain_name |-> None,
     user_domain_name |-> None, project_domain_name |-> None,
     is_admin_project |-> TRUE]

\* the value the parameter k of __init__ takes when it is called as cls(**kwargs)
Param(kwargs, k) == Get(kwargs, k, InitDefaults[k])

\* roles or []
RolesOrEmpty(roles) == IF Falsy(roles) THEN Some(<<>>) ELSE roles

\* variant: 'if request_id is None' instead of 'if not request_id'
RequestIdOrGenerated_NoneOnly(request_id, uuid) ==
    IF request_id = None THEN Some("req-" \o uuid) ELSE request_id

\* if not request_id: request_id = generate_request_id()
RequestIdOrGenerated(request_id, uuid) ==
    IF Falsy(request_id) THEN Some(generate_request_id(uuid)) ELSE request_id

\* the attributes __init__ sets on self
InitFields(kwargs, uuid) ==
    [auth_token          |-> Param(kwargs, "auth_token"),
     user                |-> Param(kwargs, "user"),
     user_name           |-> Param(kwargs, "user_name"),
     tenant              |-> Param(kwargs, "tenant"),
     project_name        |-> Param(kwargs, "project_name"),
     domain              |-> Param(kwargs, "domain"),
     domain_name         |-> Param(kwargs, "domain_name"),
     user_domain         |-> Param(kwargs, "user_domain"),
     user_domain_name    |-> Param(kwargs, "user_domain_name"),
     project_domain      |-> Param(kwargs, "project_domain"),
     project_domain_name |-> Param(kwargs, "project_domain_name"),
     is_admin            |-> Param(kwargs, "is_admin"),
     is_admin_project    |-> Param(kwargs, "is_admin_project"),
     read_only           |-> Param(kwargs, "read_only"),
     show_deleted        |-> Param(kwargs, "show_deleted"),
     resource_uuid       |-> Param(kwargs, "resource_uuid"),
     roles               |-> RolesOrEmpty(Param(kwargs, "roles")),
     request_id          |-> RequestIdOrGenerated(Param(kwargs, "request_id"), uuid)]

\* get_current() called in thread t
get_current(store, t) == store[t]

\* variant: a module-level attribute shared by all threads instead of a thread-local
update_store_Global(store, t, id) == [u \in DOMAIN store |-> Some(id)]

\* self.update_store() called in thread t, self being the instance id
update_store(store, t, id) == [store EXCEPT ![t] = Some(id)]

\* variants of the condition of line 112: without the test of the slot, and always true
ShouldPublish_OverwriteOnly(overwrite, current) == overwrite

ShouldPublish_Always(overwrite, current) == TRUE

\* the condition of line 112: overwrite or not get_current()
ShouldPublish(overwrite, current) == overwrite \/ current = None

\* '-' for an identity component that is None or empty
OrDash(v) == IF Falsy(v) THEN "-" ELSE v[1]

\* user_idt_format.format(...)
user_identity(self) ==
    OrDash(self.user) \o " " \o OrDash(self.tenant) \o " " \o OrDash(self.domain)
        \o " " \o OrDash(self.user_domain) \o " " \o OrDash(self.project_domain)

to_policy_values(self) ==
    [user_id           |-> self.user,
     user_domain_id    |-> self.user_domain,
     project_id        |-> self.tenant,
     project_domain_id |-> self.project_domain,
     roles             |-> self.roles,
     is_admin_project  |-> self.is_admin_project]

to_dict(self) ==
    [user             |-> self.user,
     tenant           |-> self.tenant,
     domain           |-> self.domain,
     user_domain      |-> self.user_domain,
     project_domain   |-> self.project_domain,
     is_admin         |-> self.is_admin,
     read_only        |-> self.read_only,
     show_deleted     |-> self.show_deleted,
     auth_token       |-> self.auth_token,
     request_id       |-> self.request_id,
     resource_uuid    |-> self.resource_uuid,
     roles            |-> self.roles,
     user_identity    |-> Some(user_identity(self)),
     is_admin_project |-> self.is_admin_project]

\* self.to_dict() as get_logging_values calls it: the method of the instance's
\* class.  A subclass enhancing the context overrides to_dict to add keys;
\* extra is what the override adds (EmptyDict for RequestContext itself).
virtual_to_dict(self, extra) == Update(to_dict(self), extra)

\* variant: the display names written over the result of to_dict
get_logging_values_NamesLast(self, extra) ==
    LET values == [user_name           |-> self.user_name,
                   project_name        |-> self.project_name,
                   domain_name         |-> self.domain_name,
                   user_domain_name    |-> self.user_domain_name,
                   project_domain_name |-> self.project_domain_name]
    IN  Update(virtual_to_dict(self, extra), values)

get_logging_values(self, extra) ==
    LET values == [user_name           |-> self.user_name,
                   project_name        |-> self.project_name,
                   domain_name         |-> self.domain_name,
                   user_domain_name    |-> self.user_domain_name,
                   project_domain_name |-> self.project_domain_name]
    IN  Update(values, virtual_to_dict(self, extra))

\* the keys from_dict copies from values, each with the default of its values.get
FromDictDefaults ==
    [auth_token |-> None, user |-> None, tenant |-> None, domain |-> None,
     user_domain |-> None, project_domain |-> None, is_admin |-> FALSE,
     read_only |-> FALSE, show_deleted |-> FALSE, request_id |-> None,
     resource_uuid |-> None, roles |-> None, user_name |-> None,
     project_name |-> None, domain_name |-> None, user_domain_name |-> None,
     project_domain_name |-> None, is_admin_project |-> TRUE]

\* variant: the setdefault of resource_uuid left out
from_dict_kwargs_NoResourceUuid(values, kwargs) ==
    [k \in DOMAIN kwargs \cup (DOMAIN FromDictDefaults \ {"resource_uuid"}) |->
        IF k \in DOMAIN kwargs THEN kwargs[k] ELSE Get(values, k, FromDictDefaults[k])]

\* the kwargs from_dict passes to cls: kwargs.setdefault(k, values.get(k, default))
from_dict_kwargs(values, kwargs) ==
    [k \in DOMAIN kwargs \cup DOMAIN FromDictDefaults |->
        IF k \in DOMAIN kwargs THEN kwargs[k] ELSE Get(values, k, FromDictDefaults[k])]

\* variant: the loop without its break, the last header present winning
FirstPresent_Last(environ, v_list) ==
    v_list[CHOOSE i \in 1..Len(v_list) :
                /\ v_list[i] \in DOMAIN environ
                /\ \A j \in (i + 1)..Len(v_list) : v_list[j] \notin DOMAIN environ]

\* the first header of v_list that is in environ (lines 216-219)
FirstPresent(environ, v_list) ==
    v_list[CHOOSE i \in 1..Len(v_list) :
                /\ v_list[i] \in DOMAIN environ
                /\ \A j \in 1..(i - 1) : v_list[j] \notin DOMAIN environ]

\* the loop over _ENVIRON_HEADERS (lines 212-219)
environ_headers_kwargs(environ, kwargs) ==
    LET found == {k \in DOMAIN _ENVIRON_HEADERS :
                    /\ k \notin DOMAIN kwargs
                    /\ \E i \in 1..Len(_ENVIRON_HEADERS[k]) :
                            _ENVIRON_HEADERS[k][i] \in DOMAIN environ}
    IN  [k \in DOMAIN kwargs \cup found |->
            IF k \in DOMAIN kwargs THEN kwargs[k]
            ELSE environ[FirstPresent(environ, _ENVIRON_HEADERS[k])]]

\* variant: the pieces kept as split returns them
StripAll_NoStrip(pieces) == pieces

\* [r.strip() for r in roles.split(',')]
StripAll(pieces) == [i \in 1..Len(pieces) |-> strip(pieces[i])]

\* lines 222-223
environ_roles(environ) ==
    LET roles == Get(environ, "HTTP_X_ROLES", Get(environ, "HTTP_X_ROLE", None))
    IN  IF Falsy(roles) THEN Some(<<>>) ELSE Some(StripAll(split(roles[1], ",")))

\* variant: the comparison without lower()
environ_is_admin_project_CaseSensitive(environ) ==
    LET is_admin_proj_str == Get(environ, "HTTP_X_IS_ADMIN_PROJECT", Some("true"))
    IN  is_admin_proj_str[1] = "true"

\* lines 230-231
environ_is_admin_project(environ) ==
    LET is_admin_proj_str == Get(environ, "HTTP_X_IS_ADMIN_PROJECT", Some("true"))
    IN  lower(is_admin_proj_str[1]) = "true"

\* is_admin_proj_str.lower() (line 231) raises AttributeError when the header
\* holds None instead of a string
from_environ_raises(environ, kwargs) ==
    /\ "is_admin_project" \notin DOMAIN kwargs
    /\ Get(environ, "HTTP_X_IS_ADMIN_PROJECT", Some("true")) = None

\* the kwargs from_environ passes to cls
from_environ_kwargs(environ, kwargs) ==
    LET k1 == environ_headers_kwargs(environ, kwargs)
        k2 == IF "roles" \in DOMAIN k1 THEN k1
              ELSE Update(k1, [roles |-> environ_roles(environ)])
    IN  IF "is_admin_project" \in DOMAIN k2 THEN k2
        ELSE Update(k2, [is_admin_project |-> environ_is_admin_project(environ)])

\* variant: overwrite left at its default
get_admin_context_kwargs_Overwrite(show_deleted) ==
    [auth_token |-> None, tenant |-> None, is_admin |-> TRUE,
     show_deleted |-> show_deleted]

\* the arguments get_admin_context passes to RequestContext
get_admin_context_kwargs(show_deleted) ==
    [auth_token |-> None, tenant |-> None, is_admin |-> TRUE,
     show_deleted |-> show_deleted, overwrite |-> FALSE]

-----------------------------------------------------------------------------
(* Operations *)

\* cls(**kwargs) evaluated in thread t: __init__ builds the instance and,
\* when line 112 allows it, stores it in the thread's slot (lines 90-113).
\* call holds the arguments of the public call that led here; it is history only.
Construct(t, op, call, kwargs) ==
    /\ Len(heap) < MaxCtx
    /\ \E uuid \in UUIDs :
        LET id == Len(heap) + 1 IN
        /\ heap' = Append(heap, InitFields(kwargs, uuid))
        /\ _request_store' =
              IF ShouldPublish(Param(kwargs, "overwrite"), get_current(_request_store, t))
              THEN update_store(_request_store, t, id)
              ELSE _request_store
        /\ created' = Append(created, [op |-> op, thread |-> t, call |-> call, kwargs |-> kwargs])
        /\ ret' = [op |-> op, thread |-> t, val |-> Some(id)]

DoRequestContext(t, kwargs) ==
    Construct(t, "RequestContext", [kwargs |-> kwargs], kwargs)

DoFromDict(t, values, kwargs) ==
    Construct(t, "from_dict", [values |-> values, kwargs |-> kwargs],
              from_dict_kwargs(values, kwargs))

\* an exception leaves the call: nothing is constructed
Raise(op, exception) ==
    /\ ret' = [op |-> op, raised |-> exception]
    /\ UNCHANGED <<_request_store, heap, created>>

DoFromEnviron(t, environ, kwargs) ==
    IF from_environ_raises(environ, kwargs)
    THEN Raise("from_environ", "AttributeError")
    ELSE Construct(t, "from_environ", [environ |-> environ, kwargs |-> kwargs],
                   from_environ_kwargs(environ, kwargs))

DoGetAdminContext(t, show_deleted) ==
    Construct(t, "get_admin_context", [show_deleted |-> show_deleted],
              get_admin_context_kwargs(show_deleted))

DoGetCurrent(t) ==
    /\ ret' = [op |-> "get_current", thread |-> t, val |-> get_current(_request_store, t)]
    /\ UNCHANGED <<_request_store, heap, created>>

DoToPolicyValues(id) ==
    /\ ret' = [op |-> "to_policy_values", self |-> id, val |-> to_policy_values(heap[id])]
    /\ UNCHANGED <<_request_store, heap, created>>

DoToDict(id) ==
    /\ ret' = [op |-> "to_dict", self |-> id, val |-> to_dict(heap[id])]
    /\ UNCHANGED <<_request_store, heap, created>>

DoGetLoggingValues(id, extra) ==
    /\ ret' = [op |-> "get_logging_values", self |-> id, extra |-> extra,
               val |-> get_logging_values(heap[id], extra)]
    /\ UNCHANGED <<_request_store, heap, created>>

NoCall == [op |-> "none"]

EmptyStore == [t \in Threads |-> None]

-----------------------------------------------------------------------------
(* Spec: threads constructing and using contexts, in any interleaving *)

SampleKwargs ==
    {EmptyDict,
     [user |-> Some("alice"), tenant |-> Some("p1"), roles |-> Some(<<"member">>),
      request_id |-> Some("req-given"), overwrite |-> FALSE]}

SampleDict ==
    [user |-> Some("bob"), is_admin |-> TRUE, request_id |-> Some("req-dict"),
     user_name |-> Some("Bob")]

SampleEnviron ==
    ("HTTP_X_USER_ID" :> Some("carol")) @@ ("HTTP_X_TENANT" :> Some("p2"))
        @@ ("HTTP_X_ROLES" :> Some("admin, member")) @@ ("openstack.request_id" :> Some("req-env"))

SampleOverwrite == [overwrite |-> FALSE]

Init ==
    /\ _request_store = EmptyStore
    /\ heap = <<>>
    /\ created = <<>>
    /\ ret = NoCall
    /\ args = NoCall
    /\ pc = "run"

NewRequestContext ==
    /\ \E t \in Threads, kwargs \in SampleKwargs : DoRequestContext(t, kwargs)
    /\ UNCHANGED <<args, pc>>

FromDict ==
    /\ \E t \in Threads : DoFromDict(t, SampleDict, EmptyDict)
    /\ UNCHANGED <<args, pc>>

FromEnviron ==
    /\ \E t \in Threads : DoFromEnviron(t, SampleEnviron, SampleOverwrite)
    /\ UNCHANGED <<args, pc>>

GetAdminContext ==
    /\ \E t \in Threads, show_deleted \in BOOLEAN : DoGetAdminContext(t, show_deleted)
    /\ UNCHANGED <<args, pc>>

GetCurrent ==
    /\ \E t \in Threads : DoGetCurrent(t)
    /\ UNCHANGED <<args, pc>>

ToPolicyValues ==
    /\ \E id \in 1..Len(heap) : DoToPolicyValues(id)
    /\ UNCHANGED <<args, pc>>

ToDict ==
    /\ \E id \in 1..Len(heap) : DoToDict(id)
    /\ UNCHANGED <<args, pc>>

GetLoggingValues ==
    /\ \E id \in 1..Len(heap) : DoGetLoggingValues(id, EmptyDict)
    /\ UNCHANGED <<args, pc>>

Next ==
    \/ NewRequestContext
    \/ FromDict
    \/ FromEnviron
    \/ GetAdminContext
    \/ GetCurrent
    \/ ToPolicyValues
    \/ ToDict
    \/ GetLoggingValues

Spec == Init /\ [][Next]_vars

-----------------------------------------------------------------------------
(* SpecCall: one construction from each input of a bounded set, followed by *)
(* the exports of the instance and the reload of its to_dict                *)

RECURSIVE StringsUpTo(_, _)
StringsUpTo(alphabet, n) ==
    IF n = 0 THEN {""}
    ELSE LET S == StringsUpTo(alphabet, n - 1)
         IN  S \cup {s \o c : s \in S, c \in alphabet}

RECURSIVE SubsetsUpTo(_, _)
SubsetsUpTo(S, n) ==
    IF n = 0 THEN {{}}
    ELSE LET P == SubsetsUpTo(S, n - 1)
         IN  P \cup {K \cup {x} : K \in P, x \in S}

\* the dicts with key set K whose value at k is one of vals[k]
RECURSIVE DictsOver(_, _)
DictsOver(K, vals) ==
    IF K = {} THEN {EmptyDict}
    ELSE LET k == CHOOSE x \in K : TRUE
         IN  {Update(d, k :> v) : d \in DictsOver(K \ {k}, vals), v \in vals[k]}

DictsUpTo(vals, n) == UNION {DictsOver(K, vals) : K \in SubsetsUpTo(DOMAIN vals, n)}

OptStrings == {None, Some("x")}

\* values a caller passes for each parameter of __init__
KwargValues ==
    [auth_token |-> OptStrings, user |-> OptStrings, tenant |-> OptStrings,
     domain |-> OptStrings, user_domain |-> OptStrings, project_domain |-> OptStrings,
     is_admin |-> BOOLEAN, read_only |-> BOOLEAN, show_deleted |-> BOOLEAN,
     request_id |-> {None, Some(""), Some("r-1")},
     resource_uuid |-> OptStrings, overwrite |-> BOOLEAN,
     roles |-> {None, Some(<<>>), Some(<<"admin", "member">>)},
     user_name |-> OptStrings, project_name |-> OptStrings, domain_name |-> OptStrings,
     user_domain_name |-> OptStrings, project_domain_name |-> OptStrings,
     is_admin_project |-> BOOLEAN]

\* values found in a dict given to from_dict
DictValues == [k \in DOMAIN FromDictDefaults |-> KwargValues[k]]

Headers ==
    UNION {{_ENVIRON_HEADERS[k][i] : i \in 1..Len(_ENVIRON_HEADERS[k])} :
              k \in DOMAIN _ENVIRON_HEADERS}

\* each header carries a value of its own, so that the header a field was read from shows
HeaderValues == [h \in Headers |-> {Some("value of " \o h)}]

RolesStrings == StringsUpTo({"a", "b", ",", " "}, MaxRolesLen) \cup {"admin, member ,ops", "\ta\t,b"}

BoolStrings ==
    StringsUpTo({"t", "T", "r", "u", "e"}, MaxBoolLen) \cup {"false", "true ", "TRUE", "1"}

Present(S) == {Some(s) : s \in S}

RequestContextArgs ==
    {[op |-> "RequestContext", kwargs |-> kw] : kw \in DictsUpTo(KwargValues, MaxKw)}

FromDictArgs ==
    {[op |-> "from_dict", values |-> d, kwargs |-> kw] :
        d \in DictsUpTo(DictValues, 1), kw \in DictsUpTo(KwargValues, 1)}

FromEnvironHeaderArgs ==
    {[op |-> "from_environ", environ |-> e, kwargs |-> kw] :
        e \in DictsUpTo(HeaderValues, MaxEnvKeys),
        kw \in DictsUpTo([k \in DOMAIN _ENVIRON_HEADERS |-> {Some("override")}], 1)
                \cup {[tenant |-> None]}}
    \cup
    {[op |-> "from_environ", environ |-> e, kwargs |-> kw] :
        e \in DictsUpTo("openstack.request_id" :> {Some(""), Some("r-2")}, 1),
        kw \in DictsUpTo([request_id |-> {None, Some(""), Some("r-3")}], 1)}

FromEnvironRolesArgs ==
    {[op |-> "from_environ", environ |-> e, kwargs |-> kw] :
        e \in DictsUpTo([HTTP_X_ROLES |-> Present(RolesStrings),
                         HTTP_X_ROLE |-> {Some(""), Some("legacy, role")}], 2),
        kw \in DictsUpTo([roles |-> {None, Some(<<"override">>)}], 1)}

FromEnvironAdminProjectArgs ==
    {[op |-> "from_environ", environ |-> e, kwargs |-> kw] :
        e \in DictsUpTo([HTTP_X_IS_ADMIN_PROJECT |-> Present(BoolStrings) \cup {None}], 1),
        kw \in DictsUpTo([is_admin_project |-> BOOLEAN], 1)}

GetAdminContextArgs ==
    {[op |-> "get_admin_context", show_deleted |-> b] : b \in BOOLEAN}

CallArgs ==
    RequestContextArgs \cup FromDictArgs \cup FromEnvironHeaderArgs
        \cup FromEnvironRolesArgs \cup FromEnvironAdminProjectArgs \cup GetAdminContextArgs

\* additions of a subclass's to_dict
SubclassExtras ==
    {EmptyDict,
     [user_name |-> Some("name from to_dict")],
     [project_name |-> None, tenant_name |-> Some("t")],
     [instance_lock_checked |-> FALSE]}

InitCall ==
    /\ _request_store = EmptyStore
    /\ heap = <<>>
    /\ created = <<>>
    /\ ret = NoCall
    /\ args \in CallArgs
    /\ pc = "start"

CallRequestContext ==
    /\ pc = "start" /\ args.op = "RequestContext"
    /\ DoRequestContext(1, args.kwargs)
    /\ pc' = "built"
    /\ UNCHANGED args

CallFromDict ==
    /\ pc = "start" /\ args.op = "from_dict"
    /\ DoFromDict(1, args.values, args.kwargs)
    /\ pc' = "built"
    /\ UNCHANGED args

CallFromEnviron ==
    /\ pc = "start" /\ args.op = "from_environ"
    /\ DoFromEnviron(1, args.environ, args.kwargs)
    /\ pc' = IF Len(heap') > Len(heap) THEN "built" ELSE "raised"
    /\ UNCHANGED args

CallGetAdminContext ==
    /\ pc = "start" /\ args.op = "get_admin_context"
    /\ DoGetAdminContext(1, args.show_deleted)
    /\ pc' = "built"
    /\ UNCHANGED args

CallToPolicyValues ==
    /\ pc = "built"
    /\ DoToPolicyValues(1)
    /\ pc' = "policy"
    /\ UNCHANGED args

CallGetLoggingValues ==
    /\ pc = "built"
    /\ \E extra \in SubclassExtras : DoGetLoggingValues(1, extra)
    /\ pc' = "logged"
    /\ UNCHANGED args

CallToDict ==
    /\ pc = "built"
    /\ DoToDict(1)
    /\ pc' = "exported"
    /\ UNCHANGED args

\* from_dict(to_dict(ctx)), ret being the to_dict just returned
CallReload ==
    /\ pc = "exported"
    /\ DoFromDict(1, ret.val, EmptyDict)
    /\ pc' = "reloaded"
    /\ UNCHANGED args

NextCall ==
    \/ CallRequestContext
    \/ CallFromDict
    \/ CallFromEnviron
    \/ CallGetAdminContext
    \/ CallToPolicyValues
    \/ CallGetLoggingValues
    \/ CallToDict
    \/ CallReload

SpecCall == InitCall /\ [][NextCall]_vars

-----------------------------------------------------------------------------
(* Properties of the store (checked under Spec) *)

\* the instances constructed in thread t, and the overwrite a construction ran with
ConstructedIn(t) == {i \in 1..Len(created) : created[i].thread = t}

OverwriteOf(i) ==
    IF created[i].op = "get_admin_context" THEN FALSE
    ELSE Get(created[i].call.kwargs, "overwrite", TRUE)

\* C1: a construction whose overwrite is true, or that finds the slot of its
\* thread empty, makes the new instance the one get_current() returns in that
\* thread; a construction with overwrite false in a thread that holds a
\* context leaves get_current() at the context held.
C1_PublishOnConstruction ==
    [][Len(heap') = Len(heap) + 1 =>
        LET id == Len(heap')
            t == created'[id].thread
            overwrite == IF created'[id].op = "get_admin_context" THEN FALSE
                         ELSE Get(created'[id].call.kwargs, "overwrite", TRUE)
        IN  /\ (overwrite \/ _request_store[t] = None) => _request_store'[t] = Some(id)
            /\ (~overwrite /\ _request_store[t] # None) => _request_store'[t] = _request_store[t]
            /\ ret'.val = Some(id)]_vars

\* an instance constructed with overwrite=false is the current context of its thread
C1_Witness ==
    \E i \in 1..Len(created) :
        /\ created[i].op # "get_admin_context"
        /\ ~OverwriteOf(i)
        /\ _request_store[created[i].thread] = Some(i)

\* C2: get_current() in a thread returns None or a context constructed in that
\* thread, and None in a thread that constructed nothing.
C2_ThreadIsolation ==
    /\ \A t \in Threads :
        /\ _request_store[t] # None => _request_store[t][1] \in ConstructedIn(t)
        /\ ConstructedIn(t) = {} => _request_store[t] = None
    /\ ret.op = "get_current" =>
        /\ ret.val = _request_store[ret.thread]
        /\ ret.val # None => ret.val[1] \in ConstructedIn(ret.thread)
        /\ ConstructedIn(ret.thread) = {} => ret.val = None

\* two threads have each constructed, and get_current() has just answered in one
C2_Witness ==
    /\ ret.op = "get_current" /\ ret.val # None
    /\ \E t \in Threads : t # ret.thread /\ ConstructedIn(t) # {}

IdentityFields ==
    {"auth_token", "user", "tenant", "domain", "user_domain", "project_domain",
     "user_name", "project_name", "domain_name", "user_domain_name",
     "project_domain_name"}

\* C3: get_admin_context() leaves the current context of a thread that holds
\* one, publishes the context it returns in a thread that holds none, and
\* returns a context with is_admin true, no identity and the given show_deleted.
C3_AdminContext ==
    [][(Len(heap') = Len(heap) + 1 /\ created'[Len(heap')].op = "get_admin_context") =>
        LET id == Len(heap')
            t == created'[id].thread
        IN  /\ _request_store[t] # None => _request_store'[t] = _request_store[t]
            /\ _request_store[t] = None => _request_store'[t] = Some(id)
            /\ ret'.val = Some(id)
            /\ heap'[id].is_admin = TRUE
            /\ \A f \in IdentityFields : heap'[id][f] = None
            /\ heap'[id].show_deleted = created'[id].call.show_deleted]_vars

\* get_admin_context() was called twice in a thread, and the first one is current
C3_Witness ==
    \E i, j \in 1..Len(created) :
        /\ i < j
        /\ created[i].op = "get_admin_context" /\ created[j].op = "get_admin_context"
        /\ created[i].thread = created[j].thread
        /\ _request_store[created[i].thread] = Some(i)

Max(S) == CHOOSE x \in S : \A y \in S : y <= x
Min(S) == CHOOSE x \in S : \A y \in S : x <= y

\* the context the constructions of thread t leave current
C10_Expected(t) ==
    LET all == ConstructedIn(t)
        overwriting == {i \in all : OverwriteOf(i)}
    IN  IF all = {} THEN None
        ELSE IF overwriting # {} THEN Some(Max(overwriting))
        ELSE Some(Min(all))

ExportOps == {"to_dict", "to_policy_values", "get_logging_values"}

\* C10: get_current() in a thread returns the most recent context constructed
\* there with overwrite=true, or the first one constructed there if none was;
\* it never returns None again once the thread has constructed; the exports
\* do not change it.
C10_CurrentFollowsHistory ==
    /\ [](\A t \in Threads : get_current(_request_store, t) = C10_Expected(t))
    /\ [][\A t \in Threads : _request_store[t] # None => _request_store'[t] # None]_vars
    /\ [][ret'.op \in ExportOps => _request_store' = _request_store]_vars

\* after a construction with overwrite=false and a later one with
\* overwrite=true in the same thread, an export has just returned
C10_Witness ==
    /\ ret.op \in ExportOps
    /\ \E i, j \in 1..Len(created) :
        /\ i < j /\ created[i].thread = created[j].thread
        /\ ~OverwriteOf(i) /\ OverwriteOf(j)
        /\ _request_store[created[i].thread] = Some(j)

-----------------------------------------------------------------------------
(* Properties of a construction and of the exports (checked under SpecCall) *)

Built == pc \notin {"start", "raised"}

StartsWith(s, prefix) == Len(s) >= Len(prefix) /\ SubSeq(s, 1, Len(prefix)) = prefix

\* the request_id the caller of the call in args supplied, None if it supplied none
C4_Supplied ==
    CASE args.op = "RequestContext" -> Get(args.kwargs, "request_id", None)
      [] args.op = "from_dict" ->
            IF "request_id" \in DOMAIN args.kwargs THEN args.kwargs["request_id"]
            ELSE Get(args.values, "request_id", None)
      [] args.op = "from_environ" ->
            IF "request_id" \in DOMAIN args.kwargs THEN args.kwargs["request_id"]
            ELSE Get(args.environ, "openstack.request_id", None)
      [] args.op = "get_admin_context" -> None

\* C4: after every construction path the request_id is a non-empty string:
\* the one supplied when a non-empty one is supplied, and otherwise a
\* generated one that begins with "req-".
C4_RequestIdNonEmpty ==
    Built =>
        /\ \A i \in 1..Len(heap) :
              heap[i].request_id # None /\ Len(heap[i].request_id[1]) > 0
        /\ (C4_Supplied # None /\ C4_Supplied # Some("")) => heap[1].request_id = C4_Supplied
        /\ (C4_Supplied = None \/ C4_Supplied = Some("")) =>
              /\ StartsWith(heap[1].request_id[1], "req-")
              /\ \E uuid \in UUIDs : heap[1].request_id = Some("req-" \o uuid)
        /\ Len(heap) = 2 => heap[2].request_id = heap[1].request_id

\* an empty request_id was supplied and a generated one is stored
C4_Witness ==
    /\ Built
    /\ C4_Supplied = Some("")
    /\ StartsWith(heap[1].request_id[1], "req-")

\* the value the discovery table gives field k, wrapped in a tuple; <<>> if it gives none
C5_Expected(k) ==
    LET v_list == _ENVIRON_HEADERS[k]
        present == {i \in 1..Len(v_list) : v_list[i] \in DOMAIN args.environ}
    IN  IF k \in DOMAIN args.kwargs THEN <<args.kwargs[k]>>
        ELSE IF present # {} THEN <<args.environ[v_list[Min(present)]]>>
        ELSE <<>>

TenantHeaders == {"HTTP_X_PROJECT_ID", "HTTP_X_TENANT_ID", "HTTP_X_TENANT"}

\* C5: from_environ gives each field of the discovery table its override if
\* one is supplied, else the value of the first header of the field's list
\* present in environ, else nothing; HTTP_X_TENANT alone gives tenant, and
\* HTTP_X_PROJECT_ID wins over HTTP_X_TENANT.
C5_HeaderResolution ==
    (Built /\ args.op = "from_environ") =>
        /\ \A k \in DOMAIN _ENVIRON_HEADERS :
            /\ k \in DOMAIN created[1].kwargs <=> C5_Expected(k) # <<>>
            /\ k \in DOMAIN created[1].kwargs => created[1].kwargs[k] = C5_Expected(k)[1]
            /\ k # "request_id" =>
                  heap[1][k] = (IF C5_Expected(k) = <<>> THEN None ELSE C5_Expected(k)[1])
        /\ ("tenant" \notin DOMAIN args.kwargs
              /\ DOMAIN args.environ \cap TenantHeaders = {"HTTP_X_TENANT"}) =>
                heap[1].tenant = args.environ["HTTP_X_TENANT"]
        /\ ("tenant" \notin DOMAIN args.kwargs
              /\ {"HTTP_X_PROJECT_ID", "HTTP_X_TENANT"} \subseteq DOMAIN args.environ) =>
                heap[1].tenant = args.environ["HTTP_X_PROJECT_ID"]

\* both HTTP_X_PROJECT_ID and HTTP_X_TENANT are set, and tenant is the former
C5_Witness ==
    /\ Built /\ args.op = "from_environ"
    /\ "tenant" \notin DOMAIN args.kwargs
    /\ {"HTTP_X_PROJECT_ID", "HTTP_X_TENANT"} \subseteq DOMAIN args.environ
    /\ heap[1].tenant = Some("value of HTTP_X_PROJECT_ID")

RoundTripFields ==
    {"user", "tenant", "domain", "user_domain", "project_domain", "is_admin",
     "read_only", "show_deleted", "auth_token", "request_id", "resource_uuid",
     "roles", "is_admin_project"}

DisplayNames ==
    {"user_name", "project_name", "domain_name", "user_domain_name",
     "project_domain_name"}

\* C6: from_dict(to_dict(ctx)) has the value of ctx in each of the thirteen
\* fields that are both a parameter of the constructor and a key of
\* to_dict, and None in the five display names.
C6_RoundTrip ==
    pc = "reloaded" =>
        /\ \A f \in RoundTripFields : heap[2][f] = heap[1][f]
        /\ \A f \in DisplayNames : heap[2][f] = None

\* a context with a resource_uuid and a display name has been reloaded
C6_Witness ==
    /\ pc = "reloaded"
    /\ heap[1].resource_uuid # None
    /\ heap[1].user_name # None
    /\ heap[2].user_name = None

\* C7 as stated: get_logging_values() is to_dict() extended with the five
\* display names, the display-name field being the value wherever a display
\* name is also a key of to_dict().
C7_DisplayNamesWin ==
    pc = "logged" =>
        LET td == virtual_to_dict(heap[1], ret.extra) IN
        /\ DOMAIN ret.val = DOMAIN td \cup DisplayNames
        /\ \A k \in DisplayNames : ret.val[k] = heap[1][k]
        /\ \A k \in DOMAIN td \ DisplayNames : ret.val[k] = td[k]

\* C7 amended: get_logging_values() is the five display names extended with
\* to_dict(): every key of to_dict() has to_dict()'s value, and a display
\* name has the display-name field only when to_dict() has no such key.
C7_ToDictWins ==
    pc = "logged" =>
        LET td == virtual_to_dict(heap[1], ret.extra) IN
        /\ DOMAIN ret.val = DOMAIN td \cup DisplayNames
        /\ \A k \in DOMAIN td : ret.val[k] = td[k]
        /\ \A k \in DisplayNames \ DOMAIN td : ret.val[k] = heap[1][k]

\* to_dict() has a display-name key whose value differs from the field
C7_Witness ==
    /\ pc = "logged"
    /\ \E k \in DisplayNames \cap DOMAIN ret.extra : ret.extra[k] # heap[1][k]

\* the pieces of s between its commas, in order
C8_Pieces(s) ==
    LET cuts == {0, Len(s) + 1} \cup {i \in 1..Len(s) : CharAt(s, i) = ","}
        cut(n) == CHOOSE c \in cuts : Cardinality({d \in cuts : d < c}) = n
    IN  [n \in 1..(Cardinality(cuts) - 1) |-> SubSeq(s, cut(n - 1) + 1, cut(n) - 1)]

\* s without the whitespace before its first and after its last other character
C8_Trim(s) ==
    LET keep == {i \in 1..Len(s) : CharAt(s, i) \notin Whitespace}
    IN  IF keep = {} THEN "" ELSE SubSeq(s, Min(keep), Max(keep))

C8_Parse(s) == LET p == C8_Pieces(s) IN [n \in DOMAIN p |-> C8_Trim(p[n])]

\* the value roles are read from: HTTP_X_ROLES, else HTTP_X_ROLE, else None
C8_Source ==
    IF "HTTP_X_ROLES" \in DOMAIN args.environ THEN args.environ["HTTP_X_ROLES"]
    ELSE IF "HTTP_X_ROLE" \in DOMAIN args.environ THEN args.environ["HTTP_X_ROLE"]
    ELSE None

\* C8 as stated: without a roles override, roles is the value of HTTP_X_ROLES
\* (else of HTTP_X_ROLE) split on commas, each piece trimmed, and the empty
\* sequence if the header is absent; roles is never None.
C8_RolesSplit ==
    (Built /\ args.op = "from_environ") =>
        /\ heap[1].roles # None
        /\ "roles" \notin DOMAIN args.kwargs =>
              heap[1].roles = (IF C8_Source = None THEN Some(<<>>)
                               ELSE Some(C8_Parse(C8_Source[1])))

\* C8 amended: as stated, with the empty sequence also when the value of the
\* header is the empty string.
C8_RolesSplitNonEmpty ==
    (Built /\ args.op = "from_environ") =>
        /\ heap[1].roles # None
        /\ "roles" \notin DOMAIN args.kwargs =>
              heap[1].roles = (IF C8_Source = None \/ C8_Source = Some("") THEN Some(<<>>)
                               ELSE Some(C8_Parse(C8_Source[1])))
        /\ ("roles" \notin DOMAIN args.kwargs
              /\ Get(args.environ, "HTTP_X_ROLES", None) = Some("admin, member ,ops")) =>
                heap[1].roles = Some(<<"admin", "member", "ops">>)

\* HTTP_X_ROLES = "admin, member ,ops" has been resolved, HTTP_X_ROLE being set too
C8_Witness ==
    /\ Built /\ args.op = "from_environ"
    /\ "roles" \notin DOMAIN args.kwargs
    /\ "HTTP_X_ROLE" \in DOMAIN args.environ
    /\ Get(args.environ, "HTTP_X_ROLES", None) = Some("admin, member ,ops")
    /\ heap[1].roles = Some(<<"admin", "member", "ops">>)

\* s is "true" up to the case of its letters
C9_IsTrue(s) ==
    /\ Len(s) = 4
    /\ CharAt(s, 1) \in {"t", "T"}
    /\ CharAt(s, 2) \in {"r", "R"}
    /\ CharAt(s, 3) \in {"u", "U"}
    /\ CharAt(s, 4) \in {"e", "E"}

\* C9: from_environ raises nothing whatever string HTTP_X_IS_ADMIN_PROJECT
\* holds; is_admin_project is the override if one is supplied, else true if
\* the header is absent or is "true" in any case, else false.
C9_AdminProjectTotal ==
    (pc # "start" /\ args.op = "from_environ"
        /\ ("is_admin_project" \in DOMAIN args.kwargs
              \/ Get(args.environ, "HTTP_X_IS_ADMIN_PROJECT", Some("")) # None)) =>
        /\ pc # "raised"
        /\ "raised" \notin DOMAIN ret
        /\ Len(heap) >= 1
        /\ heap[1].is_admin_project =
              (IF "is_admin_project" \in DOMAIN args.kwargs THEN args.kwargs["is_admin_project"]
               ELSE IF "HTTP_X_IS_ADMIN_PROJECT" \notin DOMAIN args.environ THEN TRUE
               ELSE C9_IsTrue(args.environ["HTTP_X_IS_ADMIN_PROJECT"][1]))

\* a header spelling "true" with a capital has been resolved to true
C9_Witness ==
    /\ Built /\ args.op = "from_environ"
    /\ "is_admin_project" \notin DOMAIN args.kwargs
    /\ Get(args.environ, "HTTP_X_IS_ADMIN_PROJECT", None) = Some("True")
    /\ heap[1].is_admin_project = TRUE

====
